---- MODULE Spec2Model ----
(***************************************************************************)
(* The OpenCL kernel `pir` of pircl/kernel.c: a grid-stride scan that      *)
(* folds the input vector into one float accumulator per work-item,        *)
(* followed by a tree reduction of each work-group's accumulators in the   *)
(* group's __local scratch buffer and the publication of scratch[0] to     *)
(* output[group].                                                          *)
(*                                                                         *)
(* A work-item is identified by its global id w (get_global_id(0)).        *)
(***************************************************************************)
EXTENDS Integers, Sequences, FiniteSets, TLC

(***************************************************************************)
(* Bounds of the model.                                                    *)
(***************************************************************************)
\* longest input vector of a complete launch
MaxLen == 3
\* largest work-group (get_local_size(0)) of a complete launch
MaxLocal == 4
\* most work-groups of a complete launch
MaxGroups == 2
\* most work-items of a complete launch (groups * group size)
MaxWorkers == 4
\* most buffer reads of one work-item (cuts the cycle of a wrapped index)
MaxVisits == 6

(***************************************************************************)
(* ulong: an unsigned 64-bit cell, kept as three limbs <<h, m, l>> with    *)
(* value h * 2^48 + m * 2^24 + l, h < 2^16, m < 2^24, l < 2^24.            *)
(***************************************************************************)
Limb == 2^24

UL(n) == <<0, 0, n>>

ULONG_MAX == <<2^16 - 1, Limb - 1, Limb - 1>>

(***************************************************************************)
(* float: IEEE-754 binary32 restricted to the values the kernel can hold:  *)
(* the non-negative integers m * 2^e with a 24-bit significand m, and      *)
(* +infinity.  Normal form: e = 0, or 2^23 <= m < 2^24; then the order of  *)
(* the values is the lexicographic order of (e, m).                        *)
(***************************************************************************)
INFINITY == [e |-> 255, m |-> 0]

\* 2^64 as a float: the least float that no ulong holds
TwoTo64Exp == 64 - 23

FloatLess(x, y) == x.e < y.e \/ (x.e = y.e /\ x.m < y.m)

RECURSIVE BitLen(_)
BitLen(n) == IF n = 0 THEN 0 ELSE 1 + BitLen(n \div 2)

\* round-to-nearest-even of a significand `kept` whose dropped bits compare
\* to one half as `cmp` (-1 below, 0 tie, 1 above); d bits were dropped
RoundNearestEven(kept, cmp, d) ==
  LET up == cmp = 1 \/ (cmp = 0 /\ kept % 2 = 1)
      k  == IF up THEN kept + 1 ELSE kept
  IN  IF k = Limb THEN [e |-> d + 1, m |-> Limb \div 2] ELSE [e |-> d, m |-> k]

Cmp(rem, half) == IF rem > half THEN 1 ELSE IF rem = half THEN 0 ELSE -1

\* conversion ulong -> float (kernel.c:12,25,26): the numeric value, rounded
\* to 24 significant bits
U2F(u) ==
  LET h == u[1]
      m == u[2]
      l == u[3]
  IN  IF h > 0
        THEN LET bh   == BitLen(h)
                 kept == h * 2^(24 - bh) + (m \div 2^bh)
                 rem  == m % 2^bh
                 c    == Cmp(rem, 2^(bh - 1))
                 cmp  == IF c = 0 /\ l > 0 THEN 1 ELSE c
             IN  RoundNearestEven(kept, cmp, bh + 24)
        ELSE IF m > 0
        THEN LET bm   == BitLen(m)
                 kept == m * 2^(24 - bm) + (l \div 2^bm)
                 rem  == l % 2^bm
             IN  RoundNearestEven(kept, Cmp(rem, 2^(bm - 1)), bm)
        ELSE [e |-> 0, m |-> l]

\* what an out-of-range float -> ulong conversion can leave in the cell: the
\* behaviour is undefined; builds saturate, or give 2^63, or give 0
UBOutcomes == {UL(0), <<2^15, 0, 0>>, ULONG_MAX}

\* (a < b) ? a : b  (kernel.c:13,27)
FMin(a, b) == IF FloatLess(a, b) THEN a ELSE b

(***************************************************************************)
(* int: the 32-bit signed type of global_index, length and offset.         *)
(***************************************************************************)
INT_MAX == 2147483647

\* (int)(i + W) for an int i and a global size 1 <= W <= INT_MAX: the sum is
\* formed in size_t and cut to 32 bits, so it wraps modulo 2^32
AddInt(i, W) ==
  IF i <= INT_MAX - W THEN i + W ELSE ((i - INT_MAX) + (W - INT_MAX)) - 2

(***************************************************************************)
(* The inputs the model draws from.                                        *)
(***************************************************************************)
\* cell values of the input vector: a small integer, 2^24 + 1 (the least
\* integer that is no float) and the largest ulong
ElemValues == {UL(5), <<0, 1, 1>>, ULONG_MAX}

\* a cell whose content the model does not determine (a read outside the
\* vector, an uninitialised __local cell, a cell of the vector that the
\* model does not hold)
AnyCell == ElemValues \cup UBOutcomes

MaskBytes == {0, 1}

NoValue == <<>>

(***************************************************************************)
(* State.                                                                  *)
(***************************************************************************)
VARIABLES
  buffer,        \* __global ulong* buffer: the cells buffer[0..], 1-based here
  mask,          \* __global char* mask
  length,        \* __const int length
  output,        \* __global ulong* output: group id -> cell, NoValue = not written
  scratch,       \* __local ulong* scratch of each group: group id -> local id -> cell
  gsize,         \* get_global_size(0)
  lsize,         \* get_local_size(0)
  groups,        \* the work-groups whose work-items are followed
  global_index,  \* int global_index of each work-item
  accumulator,   \* float accumulator of each work-item
  offset,        \* int offset of each work-item
  pc,            \* the position of each work-item in the kernel
  phase,         \* the number of barriers each work-item has passed
  log,           \* the memory accesses of each work-item, in program order
  out_of_range   \* the cell this build's out-of-range float -> ulong conversion leaves

vars == <<buffer, mask, length, output, scratch, gsize, lsize, groups,
          global_index, accumulator, offset, pc, phase, log, out_of_range>>

\* conversion float -> ulong (kernel.c:19,27): the value, which is an
\* integer, when it is below 2^64
F2U(f) ==
  IF f.e >= TwoTo64Exp
    THEN out_of_range
    ELSE IF f.e < 24
    THEN <<0, f.m \div 2^(24 - f.e), (f.m % 2^(24 - f.e)) * 2^f.e>>
    ELSE LET s == f.e - 24
         IN  <<f.m \div 2^(24 - s), (f.m % 2^(24 - s)) * 2^s, 0>>

get_group_id(w) == w \div lsize

get_local_id(w) == w % lsize

local_index(w) == get_local_id(w)

GroupItems(g) == (g * lsize) .. (g * lsize + lsize - 1)

Workers == UNION {GroupItems(g) : g \in groups}

Access(w, mem, op, at) == [mem |-> mem, op |-> op, at |-> at, phase |-> phase[w]]

\* the content of buffer[i] as a read finds it
BufferRead(i) == IF i >= 0 /\ i < Len(buffer) THEN {buffer[i + 1]} ELSE AnyCell

\* the content of scratch[i] of group g as a read finds it
ScratchRead(g, i) ==
  IF i \in DOMAIN scratch[g] /\ scratch[g][i] # NoValue
    THEN {scratch[g][i]}
    ELSE AnyCell

(***************************************************************************)
(* Launch: the state of a launch before any work-item has run.             *)
(***************************************************************************)
Launch(len, W, N, grps) ==
  /\ length = len
  /\ gsize = W
  /\ lsize = N
  /\ groups = grps
  /\ output = [g \in grps |-> NoValue]
  /\ scratch = [g \in grps |-> [i \in 0 .. N - 1 |-> NoValue]]
  /\ LET ws == UNION {(g * N) .. (g * N + N - 1) : g \in grps}
     IN  /\ global_index = [w \in ws |-> w]
         /\ accumulator = [w \in ws |-> INFINITY]
         /\ offset = [w \in ws |-> 0]
         /\ pc = [w \in ws |-> "scan"]
         /\ phase = [w \in ws |-> 0]
         /\ log = [w \in ws |-> <<>>]

\* a complete launch: every group is followed and buffer holds length cells
Init ==
  \E len \in 0 .. MaxLen, N \in 1 .. MaxLocal, k \in 1 .. MaxGroups :
    /\ N * k <= MaxWorkers
    /\ buffer \in [1 .. len -> ElemValues]
    /\ mask \in {[i \in 1 .. len |-> b] : b \in MaskBytes}
    /\ out_of_range \in UBOutcomes
    /\ Launch(len, N * k, N, 0 .. k - 1)

(***************************************************************************)
(* The steps of a work-item.                                               *)
(***************************************************************************)
\* kernel.c:12: float element = buffer[global_index]
Element(cell) == U2F(cell)

\* kernel.c:14: global_index += get_global_size(0)
NextIndex(i) == AddInt(i, gsize)

\* the log of a work-item keeps its first MaxVisits accesses
Logged(l, ev) == IF Len(l) < MaxVisits THEN Append(l, ev) ELSE l

\* the loop of kernel.c:11-15 is followed while the log has room and, beyond
\* that, through the indices the work-item has read before: there it repeats
Followed(w) ==
  \/ Len(log[w]) < MaxVisits
  \/ \E i \in DOMAIN log[w] :
       log[w][i].mem = "buffer" /\ log[w][i].at = global_index[w]

\* Scan as a kernel that honours mask would be: a cell whose mask byte is 0
\* is left out of the minimum
ScanMasked(w) ==
  /\ pc[w] = "scan"
  /\ global_index[w] < length
  /\ Followed(w)
  /\ \E cell \in BufferRead(global_index[w]) :
       accumulator' = [accumulator EXCEPT ![w] =
                         IF mask[global_index[w] + 1] = 0 THEN @ ELSE FMin(@, Element(cell))]
  /\ log' = [log EXCEPT ![w] = @ \o
               << Access(w, "mask", "read", global_index[w]),
                  Access(w, "buffer", "read", global_index[w]) >>]
  /\ global_index' = [global_index EXCEPT ![w] = NextIndex(@)]
  /\ UNCHANGED <<buffer, mask, length, output, scratch, gsize, lsize, groups,
                 offset, pc, phase, out_of_range>>

\* kernel.c:11-15: one iteration of the grid-stride loop
Scan(w) ==
  /\ pc[w] = "scan"
  /\ global_index[w] < length
  /\ Followed(w)
  /\ \E cell \in BufferRead(global_index[w]) :
       accumulator' = [accumulator EXCEPT ![w] = FMin(@, Element(cell))]
  /\ log' = [log EXCEPT ![w] = Logged(@, Access(w, "buffer", "read", global_index[w]))]
  /\ global_index' = [global_index EXCEPT ![w] = NextIndex(@)]
  /\ UNCHANGED <<buffer, mask, length, output, scratch, gsize, lsize, groups,
                 offset, pc, phase, out_of_range>>

\* FirstOffset without the halving of kernel.c:21 would be
FirstOffsetWhole == lsize

\* kernel.c:21: int offset = get_local_size(0) / 2
FirstOffset == lsize \div 2

\* NextOffset stepping down by one instead of halving would be
NextOffsetDecrement(o) == o - 1

\* kernel.c:23: offset = offset / 2
NextOffset(o) == o \div 2

\* Store without the barrier of kernel.c:20 would be: the work-item enters
\* the reduction loop as soon as it has stored its slot
StoreSkipsBarrier(w) ==
  /\ pc[w] = "scan"
  /\ ~(global_index[w] < length)
  /\ scratch' = [scratch EXCEPT ![get_group_id(w)][local_index(w)] = F2U(accumulator[w])]
  /\ log' = [log EXCEPT ![w] = Append(@, Access(w, "scratch", "write", local_index(w)))]
  /\ pc' = [pc EXCEPT ![w] = "loop"]
  /\ offset' = [offset EXCEPT ![w] = FirstOffset]
  /\ phase' = [phase EXCEPT ![w] = @ + 1]
  /\ UNCHANGED <<buffer, mask, length, output, gsize, lsize, groups,
                 global_index, accumulator, out_of_range>>

\* kernel.c:11,18-19: the loop ends; scratch[local_index] = accumulator
Store(w) ==
  /\ pc[w] = "scan"
  /\ ~(global_index[w] < length)
  /\ scratch' = [scratch EXCEPT ![get_group_id(w)][local_index(w)] = F2U(accumulator[w])]
  /\ log' = [log EXCEPT ![w] = Append(@, Access(w, "scratch", "write", local_index(w)))]
  /\ pc' = [pc EXCEPT ![w] = "barrier"]
  /\ UNCHANGED <<buffer, mask, length, output, gsize, lsize, groups,
                 global_index, accumulator, offset, phase, out_of_range>>

\* Barrier as a barrier that does not wait would be: the work-items that
\* have arrived leave without the others
BarrierNoWait(g) ==
  LET waiting == {w \in GroupItems(g) : pc[w] \in {"barrier", "loop_barrier"}}
  IN  /\ waiting # {}
      /\ offset' = [w \in Workers |->
                      IF w \notin waiting THEN offset[w]
                      ELSE IF pc[w] = "barrier" THEN FirstOffset
                      ELSE NextOffset(offset[w])]
      /\ pc' = [w \in Workers |-> IF w \in waiting THEN "loop" ELSE pc[w]]
      /\ phase' = [w \in Workers |-> IF w \in waiting THEN phase[w] + 1 ELSE phase[w]]
      /\ UNCHANGED <<buffer, mask, length, output, scratch, gsize, lsize, groups,
                     global_index, accumulator, log, out_of_range>>

\* kernel.c:20,29: barrier(CLK_LOCAL_MEM_FENCE): the work-items of group g
\* leave the barrier once all of them wait at it; each then sets its offset
\* (kernel.c:21 after the first barrier, kernel.c:23 after a round's)
Barrier(g) ==
  /\ \A w \in GroupItems(g) : pc[w] \in {"barrier", "loop_barrier"}
  /\ offset' = [w \in Workers |->
                  IF w \notin GroupItems(g) THEN offset[w]
                  ELSE IF pc[w] = "barrier" THEN FirstOffset
                  ELSE NextOffset(offset[w])]
  /\ pc' = [w \in Workers |-> IF w \in GroupItems(g) THEN "loop" ELSE pc[w]]
  /\ phase' = [w \in Workers |-> IF w \in GroupItems(g) THEN phase[w] + 1 ELSE phase[w]]
  /\ UNCHANGED <<buffer, mask, length, output, scratch, gsize, lsize, groups,
                 global_index, accumulator, log, out_of_range>>

\* Folds with the test of kernel.c:24 off by one would be
FoldsUpTo(w) == local_index(w) <= offset[w]

\* kernel.c:24: if (local_index < offset)
Folds(w) == local_index(w) < offset[w]

\* OtherSlot as a reduction that pairs neighbours would be
OtherSlotNeighbour(w) == local_index(w) + 1

\* kernel.c:25: the slot read as `other`
OtherSlot(w) == local_index(w) + offset[w]

\* Round with the barrier of kernel.c:29 inside the if of kernel.c:24 would
\* be: a work-item that does not fold goes on to the next round at once
RoundBarrierInsideIf(w) ==
  /\ pc[w] = "loop"
  /\ offset[w] > 0
  /\ IF Folds(w)
       THEN /\ \E other \in ScratchRead(get_group_id(w), OtherSlot(w)),
                  mine \in ScratchRead(get_group_id(w), local_index(w)) :
                scratch' = [scratch EXCEPT ![get_group_id(w)][local_index(w)] =
                              F2U(FMin(U2F(mine), U2F(other)))]
            /\ log' = [log EXCEPT ![w] = @ \o
                         << Access(w, "scratch", "read", OtherSlot(w)),
                            Access(w, "scratch", "read", local_index(w)),
                            Access(w, "scratch", "write", local_index(w)) >>]
            /\ pc' = [pc EXCEPT ![w] = "loop_barrier"]
            /\ UNCHANGED offset
       ELSE /\ offset' = [offset EXCEPT ![w] = NextOffset(@)]
            /\ UNCHANGED <<scratch, log, pc>>
  /\ UNCHANGED <<buffer, mask, length, output, gsize, lsize, groups,
                 global_index, accumulator, phase, out_of_range>>

\* kernel.c:22,24-28: one round of the reduction, up to its barrier
Round(w) ==
  /\ pc[w] = "loop"
  /\ offset[w] > 0
  /\ IF Folds(w)
       THEN /\ \E other \in ScratchRead(get_group_id(w), OtherSlot(w)),
                  mine \in ScratchRead(get_group_id(w), local_index(w)) :
                scratch' = [scratch EXCEPT ![get_group_id(w)][local_index(w)] =
                              F2U(FMin(U2F(mine), U2F(other)))]
            /\ log' = [log EXCEPT ![w] = @ \o
                         << Access(w, "scratch", "read", OtherSlot(w)),
                            Access(w, "scratch", "read", local_index(w)),
                            Access(w, "scratch", "write", local_index(w)) >>]
       ELSE UNCHANGED <<scratch, log>>
  /\ pc' = [pc EXCEPT ![w] = "loop_barrier"]
  /\ UNCHANGED <<buffer, mask, length, output, gsize, lsize, groups,
                 global_index, accumulator, offset, phase, out_of_range>>

\* Publishes without the test of kernel.c:31 would be
PublishesAny(w) == TRUE

\* kernel.c:31: if (local_index == 0)
Publishes(w) == local_index(w) = 0

\* kernel.c:22,31-33: the loop ends; output[get_group_id(0)] = scratch[0]
Publish(w) ==
  /\ pc[w] = "loop"
  /\ ~(offset[w] > 0)
  /\ IF Publishes(w)
       THEN /\ \E cell \in ScratchRead(get_group_id(w), 0) :
                 output' = [output EXCEPT ![get_group_id(w)] = cell]
            /\ log' = [log EXCEPT ![w] = @ \o
                         << Access(w, "scratch", "read", 0),
                            Access(w, "output", "write", get_group_id(w)) >>]
       ELSE UNCHANGED <<output, log>>
  /\ pc' = [pc EXCEPT ![w] = "done"]
  /\ UNCHANGED <<buffer, mask, length, scratch, gsize, lsize, groups,
                 global_index, accumulator, offset, phase, out_of_range>>

\* a launch near the end of the int range: one group is followed, and the
\* model holds no cell of the vector (a read finds any content)
IdxLengths == {INT_MAX, INT_MAX - 1, 2^30 + 1}

IdxGlobalSizes == {2^30, 2^30 + 2, INT_MAX}

IdxLocalSizes == {1, 2}

InitIdx ==
  \E len \in IdxLengths, W \in IdxGlobalSizes, N \in IdxLocalSizes :
    /\ W % N = 0
    /\ buffer = <<>>
    /\ mask = <<>>
    /\ out_of_range \in UBOutcomes
    /\ \E g \in {0, (W \div N) - 1} : Launch(len, W, N, {g})

\* one group of a size that is not a power of two, over a vector of as many
\* cells or one fewer, in which one cell is smaller than all the others
MaxTreeLocal == 6

TreeLocalSizes == {MaxTreeLocal - 1, MaxTreeLocal}

InitTree ==
  \E N \in TreeLocalSizes, d \in {0, 1}, j \in 1 .. MaxTreeLocal :
   LET len == N - d IN
    /\ j <= len
    /\ buffer = [i \in 1 .. len |-> IF i = j THEN UL(5) ELSE <<0, 1, 1>>]
    /\ mask = [i \in 1 .. len |-> 1]
    /\ out_of_range \in UBOutcomes
    /\ Launch(len, N, N, {0})

Next ==
  \/ \E w \in Workers : Scan(w)
  \/ \E w \in Workers : Store(w)
  \/ \E g \in groups : Barrier(g)
  \/ \E w \in Workers : Round(w)
  \/ \E w \in Workers : Publish(w)

Spec == Init /\ [][Next]_vars

SpecIdx == InitIdx /\ [][Next]_vars

SpecTree == InitTree /\ [][Next]_vars

\* the steps of work-item w, the barrier of its group among them
Step(w) ==
  /\ w \in Workers
  /\ \/ Scan(w)
     \/ Store(w)
     \/ Barrier(get_group_id(w))
     \/ Round(w)
     \/ Publish(w)

\* the work-items a launch of InitIdx can follow
IdxItems ==
  UNION {{0, 1, W - 1, W - 2} : W \in IdxGlobalSizes}

\* the launches of InitIdx whose global size divides 2^32: an index that has
\* wrapped comes back to where it started
InitCycle == InitIdx /\ gsize = 2^30

\* the device runs every work-item that can take a step
FairSpecIdx ==
  InitCycle /\ [][Next]_vars /\ \A w \in IdxItems : WF_vars(Step(w))

\* the same for the complete small launches
FairSpec ==
  Init /\ [][Next]_vars /\ \A w \in 0 .. MaxWorkers - 1 : WF_vars(Step(w))

(***************************************************************************)
(* Vocabulary of the properties.                                           *)
(***************************************************************************)
PowerOfTwo(n) == \E k \in 0 .. 30 : n = 2^k

\* every group of the launch is followed and the model holds the whole vector
Complete == Cardinality(groups) * lsize = gsize /\ Len(buffer) = length

AllDone == \A w \in Workers : pc[w] = "done"

\* the reduction loop of group g has ended
LoopEnded(g) == \A w \in GroupItems(g) : pc[w] \in {"loop", "done"} /\ offset[w] = 0

\* the accesses of work-item w to one memory, in program order
Accesses(w, mem) == SelectSeq(log[w], LAMBDA ev : ev.mem = mem)

\* the indices at which work-item w has read buffer, in program order
Visits(w) == [i \in 1 .. Len(Accesses(w, "buffer")) |-> Accesses(w, "buffer")[i].at]

ULess(a, b) ==
  \/ a[1] < b[1]
  \/ a[1] = b[1] /\ a[2] < b[2]
  \/ a[1] = b[1] /\ a[2] = b[2] /\ a[3] < b[3]

\* the least cell of a non-empty set of cells
MinCell(S) == CHOOSE c \in S : \A d \in S : ~ULess(d, c)

\* the least float of a non-empty set of floats
MinFloat(S) == CHOOSE x \in S : \A y \in S : ~FloatLess(y, x)

BufferCells == {buffer[i] : i \in 1 .. Len(buffer)}

OutputCells == {output[g] : g \in groups}

\* a cell holds positive infinity when the kernel reads it as such
IsInfinity(cell) == U2F(cell) = INFINITY

(***************************************************************************)
(* C1.  After a complete launch with a power-of-two group size has         *)
(* finished, the least output cell equals the least cell of the input      *)
(* vector, and is positive infinity when the vector is empty.              *)
(***************************************************************************)
C1_OutputMinimum ==
  (Complete /\ AllDone /\ PowerOfTwo(lsize)) =>
    IF length = 0
      THEN IsInfinity(MinCell(OutputCells))
      ELSE MinCell(OutputCells) = MinCell(BufferCells)

(***************************************************************************)
(* C2.  The grid-stride loops visit every index of [0, length) exactly     *)
(* once: no index is read twice, by one work-item or by two, and once      *)
(* every work-item of a complete launch has left its loop no index of      *)
(* [0, length) is left out.                                                *)
(***************************************************************************)
C2_VisitedExactlyOnce ==
  /\ \A w1, w2 \in Workers :
       \A i \in DOMAIN Visits(w1), j \in DOMAIN Visits(w2) :
         (w1 # w2 \/ i # j) => Visits(w1)[i] # Visits(w2)[j]
  /\ (Complete /\ \A w \in Workers : pc[w] # "scan") =>
       \A x \in 0 .. length - 1 :
         \E w \in Workers : \E i \in DOMAIN Visits(w) : Visits(w)[i] = x

(***************************************************************************)
(* C3.  With a power-of-two group size, once the reduction loop of a group *)
(* has ended scratch[0] equals the least of the accumulators of the        *)
(* group's work-items.                                                     *)
(***************************************************************************)
C3_ScratchZeroIsGroupMinimum ==
  \A g \in groups :
    (PowerOfTwo(lsize) /\ LoopEnded(g)) =>
      U2F(scratch[g][0]) = MinFloat({accumulator[w] : w \in GroupItems(g)})

(***************************************************************************)
(* C4.  Each output cell of a launched group is written exactly once, by   *)
(* the group's work-item of local index 0 and by no other, and no other    *)
(* output cell is written: a work-item writes output at most once, only    *)
(* as local index 0 and only the cell of its own group; it has written it  *)
(* when it is done; and a cell holds a value exactly when it was written.  *)
(***************************************************************************)
C4_OutputWrittenOnce ==
  /\ \A w \in Workers :
       LET writes == Accesses(w, "output")
       IN  /\ Len(writes) <= 1
           /\ \A i \in DOMAIN writes :
                /\ writes[i].op = "write"
                /\ local_index(w) = 0
                /\ writes[i].at = get_group_id(w)
                /\ writes[i].at \in groups
           /\ (pc[w] = "done" /\ local_index(w) = 0) => Len(writes) = 1
  /\ \A g \in groups :
       output[g] # NoValue <=> Len(Accesses(g * lsize, "output")) = 1

\* two groups of two work-items have finished: both cells are written
C4_Witness ==
  AllDone /\ lsize = 2 /\ Cardinality(groups) = 2 /\ \A g \in groups : output[g] # NoValue

(***************************************************************************)
(* C5.  output[g] is written only when every work-item of group g has      *)
(* ended its reduction loop, and scratch of group g is not written after   *)
(* output[g] has been.                                                     *)
(***************************************************************************)
C5_PublishAfterFolds ==
  [][\A g \in groups :
       /\ output'[g] # NoValue => LoopEnded(g)'
       /\ output[g] # NoValue => scratch'[g] = scratch[g]]_vars

\* a group of four has published after its second round of folds
C5_Witness ==
  \E g \in groups :
    /\ lsize = 4
    /\ output[g] # NoValue
    /\ \E i \in DOMAIN log[g * lsize] :
         log[g * lsize][i].op = "write" /\ log[g * lsize][i].mem = "scratch"
           /\ log[g * lsize][i].phase = 2

(***************************************************************************)
(* C6.  With length = 0 no work-item reads the input vector, every         *)
(* accumulator stays at positive infinity and every group writes positive  *)
(* infinity to its output cell.                                            *)
(***************************************************************************)
C6_EmptyVectorGivesInfinity ==
  length = 0 =>
    /\ \A w \in Workers : Visits(w) = <<>> /\ accumulator[w] = INFINITY
    /\ \A g \in groups : output[g] # NoValue => IsInfinity(output[g])

(***************************************************************************)
(* C7.  With 0 < length < W, exactly the work-items of global id >= length *)
(* visit no element, the slot such a work-item has stored holds positive   *)
(* infinity, and the least output cell is the least cell of the vector.    *)
(***************************************************************************)
C7_IdleWorkersKeepIdentity ==
  (Complete /\ 0 < length /\ length < gsize) =>
    /\ \A w \in Workers :
         pc[w] # "scan" =>
           /\ Visits(w) = <<>> <=> w >= length
           /\ (w >= length /\ pc[w] = "barrier") =>
                IsInfinity(scratch[get_group_id(w)][local_index(w)])
    /\ AllDone => MinCell(OutputCells) = MinCell(BufferCells)

(***************************************************************************)
(* The kernel read sequentially: what one group computes from the vector,  *)
(* the launch and the build; mask does not occur in it.                    *)
(***************************************************************************)
RECURSIVE ScanFrom(_, _)
ScanFrom(i, acc) ==
  IF i < length THEN ScanFrom(i + gsize, FMin(acc, U2F(buffer[i + 1]))) ELSE acc

RECURSIVE Reduce(_, _)
Reduce(s, off) ==
  IF off > 0
    THEN Reduce([i \in DOMAIN s |->
                   IF i < off THEN F2U(FMin(U2F(s[i]), U2F(s[i + off]))) ELSE s[i]],
                off \div 2)
    ELSE s

GroupResult(g) ==
  Reduce([i \in 0 .. lsize - 1 |-> F2U(ScanFrom(g * lsize + i, INFINITY))],
         lsize \div 2)[0]

(***************************************************************************)
(* C8.  mask is inert: no step writes mask, no work-item accesses mask,    *)
(* and whatever mask holds, a step of a complete launch leaves in each     *)
(* output cell nothing but what the vector, the launch and the build       *)
(* determine.                                                              *)
(***************************************************************************)
C8_MaskInert ==
  [][/\ mask' = mask
     /\ \A w \in Workers : \A i \in DOMAIN log'[w] : log'[w][i].mem # "mask"
     /\ Complete => \A g \in groups : output'[g] \in {NoValue, GroupResult(g)}]_vars

\* a finished launch whose mask has non-zero bytes and whose work-item 0 read
\* two cells
C8_Witness ==
  AllDone /\ Len(mask) = 3 /\ mask[1] = 1 /\ Len(Visits(0)) = 2

(***************************************************************************)
(* C9.  Every index at which buffer is read lies in [0, length).           *)
(***************************************************************************)
C9_ReadsInRange ==
  \A w \in Workers :
    \A i \in DOMAIN Visits(w) : 0 <= Visits(w)[i] /\ Visits(w)[i] < length

(***************************************************************************)
(* C10.  Between two consecutive barriers no scratch slot is written by    *)
(* one work-item and read or written by another of its group; a work-item  *)
(* writes only its own slot, in a round only when its local index is below *)
(* the round's offset, and reads only its own slot and the one offset      *)
(* above it.                                                               *)
(***************************************************************************)
\* the offset of the round between barrier p and barrier p + 1
RoundOffset(p) == lsize \div 2^p

C10_NoScratchRace ==
  /\ \A w1, w2 \in Workers :
       (w1 # w2 /\ get_group_id(w1) = get_group_id(w2)) =>
         \A i \in DOMAIN Accesses(w1, "scratch"), j \in DOMAIN Accesses(w2, "scratch") :
           LET a == Accesses(w1, "scratch")[i]
               b == Accesses(w2, "scratch")[j]
           IN  (a.phase = b.phase /\ a.at = b.at) => (a.op = "read" /\ b.op = "read")
  /\ \A w \in Workers :
       \A i \in DOMAIN Accesses(w, "scratch") :
         LET a == Accesses(w, "scratch")[i]
         IN  /\ a.op = "write" =>
                  /\ a.at = local_index(w)
                  /\ a.phase > 0 => local_index(w) < RoundOffset(a.phase)
             /\ a.op = "read" =>
                  a.at \in {local_index(w), local_index(w) + RoundOffset(a.phase)}

\* a work-item has folded in the second round of a group of four
C10_Witness ==
  \E w \in Workers :
    /\ lsize = 4
    /\ \E i \in DOMAIN log[w] :
         log[w][i].mem = "scratch" /\ log[w][i].op = "write" /\ log[w][i].phase = 2

(***************************************************************************)
(* C11.  The work-items of a group execute the same barriers: while one    *)
(* waits at a barrier none of its group has left the kernel, all of the    *)
(* group have passed the same number of barriers, and those that wait,     *)
(* folding or idle in the round, wait at the same barrier with the same    *)
(* offset; a work-item that is done has passed one barrier plus one per    *)
(* halving of the offset, a number that the group size alone decides.      *)
(***************************************************************************)
AtBarrier(w) == pc[w] \in {"barrier", "loop_barrier"}

\* the number of rounds of a loop that starts at offset o (kernel.c:21-23)
RECURSIVE Halvings(_)
Halvings(o) == IF o > 0 THEN 1 + Halvings(o \div 2) ELSE 0

FloorLog2(n) == CHOOSE k \in 0 .. 29 : 2^k <= n /\ n < 2^(k + 1)

CeilLog2(n) == CHOOSE k \in 0 .. 30 : n <= 2^k /\ (k = 0 \/ 2^(k - 1) < n)

\* the rounds work-item w has run: the barriers it has passed but the first
RoundsRun(w) == phase[w] - 1

\* C12 as claimed: a work-item that is done has run ceil(log2 N) rounds
C12_CeilLog2Rounds ==
  \A w \in Workers : pc[w] = "done" => RoundsRun(w) = CeilLog2(lsize)

\* C12 amended: a work-item that is done has run floor(log2 N) rounds
C12_FloorLog2Rounds ==
  \A w \in Workers : pc[w] = "done" => RoundsRun(w) = FloorLog2(lsize)

\* a group of three is done after its single round
C12_Witness ==
  lsize = 3 /\ \A w \in Workers : pc[w] = "done" /\ RoundsRun(w) = 1

(***************************************************************************)
(* C13.  The slots of a group whose size is not a power of two that are    *)
(* never folded into scratch[0].  As claimed: they are upper slots, left   *)
(* out in the first round, and when those hold the identity scratch[0]     *)
(* ends as the minimum of all the accumulators.  As the code has it:       *)
(* scratch[0] ends as the minimum of the slots the offsets N/2, N/4, ...   *)
(* lead to, and a lower slot can be dropped in a later round.              *)
(***************************************************************************)
\* kernel.c:21-30 run on sets of slot indices: s[i] is the set of the slots
\* whose stored value has been folded into slot i
RECURSIVE FoldedInto(_, _)
FoldedInto(s, off) ==
  IF off > 0
    THEN FoldedInto([i \in DOMAIN s |->
                       IF i < off THEN s[i] \cup s[i + off] ELSE s[i]],
                    off \div 2)
    ELSE s

\* the slots of a group of N that are folded into slot 0
Reaches(N) == FoldedInto([i \in 0 .. N - 1 |-> {i}], N \div 2)[0]

\* the slots no work-item reads in the first round: offset = N/2 pairs slot i
\* with slot i + N/2 for i < N/2
LeftOutFirstRound(N) == {i \in 0 .. N - 1 : i >= 2 * (N \div 2)}

\* the float the kernel reads back from the slot work-item w stored
StoredValue(w) == U2F(F2U(accumulator[w]))

\* C13 as claimed: the never-folded slots are the upper slots left out in the
\* first round, and when these hold the identity scratch[0] ends as the
\* minimum of all N stored accumulators
C13_OnlyUpperSlotsLeftOut ==
  \A g \in groups :
    (LoopEnded(g) /\ ~PowerOfTwo(lsize)) =>
      /\ (0 .. lsize - 1) \ Reaches(lsize) \subseteq LeftOutFirstRound(lsize)
      /\ (\A w \in GroupItems(g) :
            local_index(w) \in LeftOutFirstRound(lsize) =>
              StoredValue(w) = INFINITY)
           => U2F(scratch[g][0]) = MinFloat({StoredValue(w) : w \in GroupItems(g)})

\* C13 amended: scratch[0] ends as the minimum of the values stored in the
\* slots that the offsets lead to from slot 0
C13_MinimumOfReachedSlots ==
  \A g \in groups :
    LoopEnded(g) =>
      U2F(scratch[g][0]) =
        MinFloat({StoredValue(w) :
                    w \in {v \in GroupItems(g) : local_index(v) \in Reaches(lsize)}})

\* a group of six has ended its loop and slot 2, which is no upper slot of the
\* first round, stored a value smaller than the one scratch[0] ends with
C13_Witness ==
  /\ lsize = 6
  /\ LoopEnded(0)
  /\ 2 \notin Reaches(lsize)
  /\ FloatLess(StoredValue(2), U2F(scratch[0][0]))

(***************************************************************************)
(* C14.  Every scratch index a work-item reads or writes lies in [0, N):   *)
(* a work-item that is about to fold has its own slot and the slot offset  *)
(* above it inside the group's scratch, and every access made so far, the  *)
(* first store and the publishing read included, was at an index below N   *)
(* and at one of these two slots.                                          *)
(***************************************************************************)
\* C14: the scratch accesses are in range, at slot i and slot i + offset only
C14_ScratchInRange ==
  \A w \in Workers :
    /\ (pc[w] = "loop" /\ Folds(w)) =>
         /\ local_index(w) \in 0 .. lsize - 1
         /\ OtherSlot(w) \in 0 .. lsize - 1
    /\ \A i \in DOMAIN Accesses(w, "scratch") :
         LET a == Accesses(w, "scratch")[i]
         IN  /\ a.at \in 0 .. lsize - 1
             /\ a.at \in {local_index(w), local_index(w) + RoundOffset(a.phase)}

\* in a group of three, which is no power of two, work-item 0 has folded slot
\* 1 into its own and slot 2 was stored by its work-item
C14_Witness ==
  /\ lsize = 3
  /\ \E i \in DOMAIN log[0] :
       log[0][i].mem = "scratch" /\ log[0][i].op = "read" /\ log[0][i].at = 1
  /\ \E i \in DOMAIN log[2] :
       log[2][i].mem = "scratch" /\ log[2][i].op = "write" /\ log[2][i].at = 2

(***************************************************************************)
(* C15.  When every work-item of a group has passed the first barrier and  *)
(* none has yet folded, scratch[i] holds the least of the cells that the   *)
(* work-item of local index i has visited, and positive infinity when it   *)
(* has visited none.                                                       *)
(***************************************************************************)
\* the cells work-item w has read from the vector
VisitedCells(w) == {buffer[Visits(w)[i] + 1] : i \in DOMAIN Visits(w)}

\* every work-item of group g has passed the first barrier and no other
PastFirstBarrier(g) == \A w \in GroupItems(g) : pc[w] = "loop" /\ phase[w] = 1

\* C15: after the first barrier each slot holds the minimum of what its
\* work-item visited, positive infinity when it visited nothing
C15_SlotHoldsWorkerMinimum ==
  \A g \in groups :
    (Complete /\ PastFirstBarrier(g)) =>
      \A w \in GroupItems(g) :
        IF Visits(w) = <<>>
          THEN IsInfinity(scratch[g][local_index(w)])
          ELSE scratch[g][local_index(w)] = MinCell(VisitedCells(w))

(***************************************************************************)
(* C16.  With a power-of-two group size the published cell of group g is   *)
(* the least of the cells buffer[j], j < length, with (j mod W) div N = g, *)
(* and positive infinity when there is none: a function of the cells of    *)
(* the group's own work-items, whatever the other groups hold or have done.*)
(***************************************************************************)
\* the cells of the vector that fall to the work-items of group g
GroupCells(g) ==
  {buffer[j + 1] : j \in {k \in 0 .. length - 1 : (k % gsize) \div lsize = g}}

\* C16: output[g] is the minimum of the group's own cells, positive infinity
\* when it has none
C16_OutputIsGroupMinimum ==
  \A g \in groups :
    (Complete /\ PowerOfTwo(lsize) /\ output[g] # NoValue) =>
      IF GroupCells(g) = {}
        THEN IsInfinity(output[g])
        ELSE output[g] = MinCell(GroupCells(g))

(***************************************************************************)
(* C17.  Under fair scheduling every launch runs to completion: every      *)
(* work-item leaves its scan loop, passes every barrier and is done.       *)
(***************************************************************************)
\* C17: eventually every work-item is done
C17_RunsToCompletion == <>AllDone

(***************************************************************************)
(* C18.  A cell of the vector is read as the float whose bits the cell     *)
(* holds, not as the float nearest to the cell's number; and the cell a    *)
(* work-item stores in its slot, and the one published, read back as the   *)
(* float accumulator that was computed, positive infinity included.        *)
(***************************************************************************)
\* the float m * 2^e with e < 0, in the form U2F gives to a whole number
RECURSIVE Shifted(_, _)
Shifted(e, m) ==
  IF m = 0 THEN [e |-> 0, m |-> 0]
  ELSE IF e < 0 /\ m % 2 = 0 THEN Shifted(e + 1, m \div 2)
  ELSE [e |-> e, m |-> m]

\* not a number: no float U2F yields
NaN == [e |-> 255, m |-> 1]

\* the float whose IEEE-754 single-precision bits are the low 32 bits of the
\* cell: bit 31 the sign, bits 30..23 the exponent, bits 22..0 the fraction
AsFloatBits(cell) ==
  LET byte3 == cell[2] % 256
      sign  == byte3 \div 128
      expo  == (byte3 % 128) * 2 + cell[3] \div 2^23
      frac  == cell[3] % 2^23
      mag   == IF expo = 0 THEN Shifted(-149, frac)
               ELSE Shifted(expo - 150, 2^23 + frac)
  IN  IF expo = 255 THEN (IF frac = 0 /\ sign = 0 THEN INFINITY ELSE NaN)
      ELSE IF sign = 0 THEN mag
      ELSE [e |-> mag.e, m |-> 0 - mag.m]

\* C18: the element read is the reinterpreted cell, and the stored and the
\* published cell read back as the accumulator
C18_ReinterpretedAndStoredExactly ==
  /\ \A w \in Workers :
       (Len(buffer) = length /\ Len(Visits(w)) = 1) =>
         accumulator[w] = AsFloatBits(buffer[Visits(w)[1] + 1])
  /\ \A w \in Workers :
       pc[w] = "barrier" /\ phase[w] = 0 =>
         U2F(scratch[get_group_id(w)][local_index(w)]) = accumulator[w]
  /\ \A g \in groups :
       output[g] # NoValue => output[g] = scratch[g][0]

(***************************************************************************)
(* C19.  The published cells do not depend on the interleaving: for one    *)
(* vector, length, launch and build, whatever the order in which the       *)
(* work-items ran between the barriers, a published cell is the one the    *)
(* sequential reading of its group gives, for every group size.            *)
(***************************************************************************)
\* C19: every published cell is the one cell the inputs determine
C19_OutputDeterministic ==
  Complete =>
    /\ \A g \in groups : output[g] # NoValue => output[g] = GroupResult(g)
    /\ AllDone => \A g \in groups : output[g] = GroupResult(g)

\* a launch of a group of three over three cells, not all the same, is done
C19_Witness ==
  /\ AllDone /\ Complete
  /\ lsize = 3 /\ length = 3
  /\ buffer[1] # buffer[2]
  /\ output[0] = GroupResult(0)

(***************************************************************************)
(* C20.  Every cell ever held in a scratch slot or published is positive   *)
(* infinity or a cell that a work-item of that group has visited, so it is *)
(* never below the least cell of the vector.                               *)
(***************************************************************************)
\* the cells the work-items of group g have read from the vector
GroupVisitedCells(g) == UNION {VisitedCells(w) : w \in GroupItems(g)}

\* positive infinity or a visited cell of group g, and not below the minimum
FromInput(g, cell) ==
  /\ IsInfinity(cell) \/ cell \in GroupVisitedCells(g)
  /\ length > 0 => ~ULess(cell, MinCell(BufferCells))

\* C20: slots and published cells hold positive infinity or a visited cell
C20_ValuesComeFromInput ==
  Complete =>
    \A g \in groups :
      /\ \A i \in 0 .. lsize - 1 :
           scratch[g][i] # NoValue => FromInput(g, scratch[g][i])
      /\ output[g] # NoValue => FromInput(g, output[g])

====
